---- MODULE Spec2Model ----
(***************************************************************************)
(* Model of stats_alloc's thread-local accounting: Summary (summary.rs),   *)
(* Rollup (accum/rollup.rs), the Reporter policies (accum/reporter.rs),    *)
(* ThreadStats (accum/thread_local.rs) and the events the Instrumented     *)
(* allocator (global_alloc/instrumented.rs) feeds into them.               *)
(*                                                                         *)
(* usize/isize are modelled with UsizeBits bits.  A dev build panics on    *)
(* arithmetic overflow and on a failed debug_assert!, a release build      *)
(* wraps and compiles the assertion out: where the *_panics operators      *)
(* hold, a step either aborts (dev build) or wraps (release build).        *)
(* A panic raised inside the allocator or inside a thread-local            *)
(* destructor cannot unwind; the model stops at the first panic            *)
(* (`aborted`), whichever call raised it.                                  *)
(***************************************************************************)
EXTENDS Integers, FiniteSets, Sequences, TLC

\* ------------------------------------------------------------- bounds
\* width of usize / isize in the model
UsizeBits == 4
\* total number of allocator events, flush() and set_thread_reporter() calls
MaxOps == 3
\* Instant::now() ranges over 0..MaxTime (in seconds)
MaxTime == 2
\* number of calls followed step by step in LockSpec
MaxCalls == 2

\* the Duration of the interval reporters: Duration::from_secs(1)
Interval == 1

Modulus == 2 ^ UsizeBits
IsizeMax == (Modulus \div 2) - 1
IsizeMin == 0 - (Modulus \div 2)
\* the Layout sizes of the requests: reallocations grow, shrink or keep the size
Sizes == {1, 2}

\* the main thread and one thread it may spawn
Threads == {"t1", "t2"}
MainThread == "t1"

\* the process-wide Rollup and one private `static ROLLUP: Rollup`
GLOBAL_ALLOC_STATS == "GLOBAL_ALLOC_STATS"
ROLLUP == "ROLLUP"
Rollups == {GLOBAL_ALLOC_STATS, ROLLUP}

\* the Reporter implementations; None is Option::None
NeverReport == "NeverReport"
AlwaysReport == "AlwaysReport"
IntervalReport == "IntervalReport"
LocalIntervalReport == "LocalIntervalReport"
LocalAlwaysReport == "LocalAlwaysReport"
Reporters == {NeverReport, AlwaysReport, IntervalReport, LocalIntervalReport, LocalAlwaysReport}

\* Option<T>
None == <<>>
Some(x) == <<x>>
unwrap(option) == option[1]

VARIABLES
    default_reporter,  \* Instrumented.default_reporter
    thread_stats,      \* THREAD_ALLOC_STATS of each thread
    status,            \* "unstarted" | "running" | "exited" (its ThreadStats was dropped)
    rollups,           \* the Summary inside each Rollup's Mutex
    now,               \* Instant::now()
    aborted,           \* a panic was raised: the process is gone
    ops,               \* number of operations performed so far (bounded by MaxOps)
    recorded,          \* history: field-wise sum of the events recorded on each thread
    merged,            \* history: what each thread has merged into each Rollup
    region,            \* the Region each thread holds, if any
    since,             \* history: sum of the events recorded on each thread since its
                       \* Region was created or last rebased
    life,              \* history of each thread's Region: the statistics it was created
                       \* with, the number of its change_and_reset() calls and the sum
                       \* of their results, whether reset() was called on it
    replay,            \* a Summary on its own that events are replayed into, and how
                       \* many times each event was replayed
    algebra,           \* three Summaries and the sums computed from them so far
    stats_alloc,       \* a StatsAlloc: its six atomic counters and the calls on it
    exhausted,         \* whether the wrapped allocator has run out of memory
    returned,          \* the value returned by the call just made, if it returns one
    inner,             \* the call the step just taken made to the wrapped allocator, if any
    pc,                \* where each thread is inside a call that flushes
    lock,              \* the thread holding each Rollup's Mutex, if any
    plan,              \* the Rollups the call in progress has still to flush to
    field,             \* how many `+=` of the AddAssign in progress are done
    merges             \* history: the deltas of the merge() calls on each Rollup

\* the variables of the step-by-step view of a flush (LockSpec)
lockvars == <<pc, lock, plan, field, merges>>

\* the variables that the calls into ThreadStats, Region and Rollup leave alone
sidevars == <<algebra, stats_alloc, exhausted>>

vars ==
    <<default_reporter, thread_stats, status, rollups, now, aborted, ops, recorded, merged,
      region, since, life, replay, algebra, stats_alloc, exhausted, returned, inner,
      pc, lock, plan, field, merges>>

\* ------------------------------------------------------------ integers
wrapping_add(a, b) == (a + b) % Modulus
wrapping_sub(a, b) == (a - b) % Modulus
\* `x as isize` of a usize x
as_isize(x) == IF x > IsizeMax THEN x - Modulus ELSE x
\* isize + isize, wrapping
isize_wrapping_add(a, b) == as_isize((a + b) % Modulus)
isize_wrapping_sub(a, b) == as_isize((a - b) % Modulus)
usize_add_overflows(a, b) == a + b >= Modulus
usize_sub_overflows(a, b) == a < b
isize_add_overflows(a, b) == a + b > IsizeMax \/ a + b < IsizeMin
isize_sub_overflows(a, b) == a - b > IsizeMax \/ a - b < IsizeMin
\* new_size.overflowing_sub(old_size)
overflowing_sub(a, b) == <<wrapping_sub(a, b), a < b>>

\* ------------------------------------------------------------- Summary
\* Summary::new()
Zero ==
    [allocations |-> 0, deallocations |-> 0, reallocations |-> 0,
     bytes_allocated |-> 0, bytes_deallocated |-> 0, bytes_reallocated |-> 0]

total_bytes_allocated(self) == self.bytes_allocated

\* the difference left as the usize that wrapping_sub returns
outstanding_unsigned(self) == wrapping_sub(self.bytes_allocated, self.bytes_deallocated)

outstanding_bytes_allocated(self) ==
    as_isize(wrapping_sub(self.bytes_allocated, self.bytes_deallocated))

allocate(self, size) ==
    [self EXCEPT !.allocations = wrapping_add(@, 1),
                 !.bytes_allocated = wrapping_add(@, size)]

allocate_panics(self, size) ==
    \/ usize_add_overflows(self.allocations, 1)
    \/ usize_add_overflows(self.bytes_allocated, size)

deallocate(self, size) ==
    [self EXCEPT !.deallocations = wrapping_add(@, 1),
                 !.bytes_deallocated = wrapping_add(@, size)]

deallocate_panics(self, size) ==
    \/ usize_add_overflows(self.deallocations, 1)
    \/ usize_add_overflows(self.bytes_deallocated, size)

\* a reallocation counted as a full allocation plus a full deallocation
reallocate_in_full(self, old_size, new_size) ==
    [self EXCEPT
        !.reallocations = wrapping_add(@, 1),
        !.bytes_deallocated = wrapping_add(@, old_size),
        !.bytes_allocated = wrapping_add(@, new_size),
        !.bytes_reallocated =
            isize_wrapping_add(@, as_isize(overflowing_sub(new_size, old_size)[1]))]

reallocate(self, old_size, new_size) ==
    LET change == overflowing_sub(new_size, old_size)[1]
        net_deallocate == overflowing_sub(new_size, old_size)[2]
    IN  [self EXCEPT
            !.reallocations = wrapping_add(@, 1),
            !.bytes_deallocated = IF net_deallocate THEN wrapping_add(@, change) ELSE @,
            !.bytes_allocated = IF net_deallocate THEN @ ELSE wrapping_add(@, change),
            !.bytes_reallocated = isize_wrapping_add(@, as_isize(change))]

\* the debug_assert! of the branch taken does not pass: `change + acc > acc` is
\* false when the addition wraps, and the addition panics when overflow is checked
reallocate_assertion_fires(self, old_size, new_size) ==
    LET change == overflowing_sub(new_size, old_size)[1]
        net_deallocate == overflowing_sub(new_size, old_size)[2]
        acc == IF net_deallocate THEN self.bytes_deallocated ELSE self.bytes_allocated
    IN  usize_add_overflows(change, acc) \/ ~(wrapping_add(change, acc) > acc)

\* the overflow checks and the debug_assert!s of a dev build
reallocate_panics(self, old_size, new_size) ==
    LET change == overflowing_sub(new_size, old_size)[1]
        net_deallocate == overflowing_sub(new_size, old_size)[2]
        acc == IF net_deallocate THEN self.bytes_deallocated ELSE self.bytes_allocated
    IN  \/ usize_add_overflows(self.reallocations, 1)
        \/ usize_add_overflows(change, acc)
        \/ ~(change + acc > acc)
        \/ isize_add_overflows(self.bytes_reallocated, as_isize(change))

\* an addition that overwrites bytes_reallocated instead of adding to it
add_assign_overwriting(self, rhs) ==
    [allocations |-> wrapping_add(self.allocations, rhs.allocations),
     deallocations |-> wrapping_add(self.deallocations, rhs.deallocations),
     reallocations |-> wrapping_add(self.reallocations, rhs.reallocations),
     bytes_allocated |-> wrapping_add(self.bytes_allocated, rhs.bytes_allocated),
     bytes_deallocated |-> wrapping_add(self.bytes_deallocated, rhs.bytes_deallocated),
     bytes_reallocated |-> rhs.bytes_reallocated]

add_assign(self, rhs) ==
    [allocations |-> wrapping_add(self.allocations, rhs.allocations),
     deallocations |-> wrapping_add(self.deallocations, rhs.deallocations),
     reallocations |-> wrapping_add(self.reallocations, rhs.reallocations),
     bytes_allocated |-> wrapping_add(self.bytes_allocated, rhs.bytes_allocated),
     bytes_deallocated |-> wrapping_add(self.bytes_deallocated, rhs.bytes_deallocated),
     bytes_reallocated |-> isize_wrapping_add(self.bytes_reallocated, rhs.bytes_reallocated)]

add_assign_panics(self, rhs) ==
    \/ usize_add_overflows(self.allocations, rhs.allocations)
    \/ usize_add_overflows(self.deallocations, rhs.deallocations)
    \/ usize_add_overflows(self.reallocations, rhs.reallocations)
    \/ usize_add_overflows(self.bytes_allocated, rhs.bytes_allocated)
    \/ usize_add_overflows(self.bytes_deallocated, rhs.bytes_deallocated)
    \/ isize_add_overflows(self.bytes_reallocated, rhs.bytes_reallocated)

\* impl ops::Add for Summary
add(self, rhs) == add_assign(self, rhs)

sub_assign(self, rhs) ==
    [allocations |-> wrapping_sub(self.allocations, rhs.allocations),
     deallocations |-> wrapping_sub(self.deallocations, rhs.deallocations),
     reallocations |-> wrapping_sub(self.reallocations, rhs.reallocations),
     bytes_allocated |-> wrapping_sub(self.bytes_allocated, rhs.bytes_allocated),
     bytes_deallocated |-> wrapping_sub(self.bytes_deallocated, rhs.bytes_deallocated),
     bytes_reallocated |-> isize_wrapping_sub(self.bytes_reallocated, rhs.bytes_reallocated)]

sub_assign_panics(self, rhs) ==
    \/ usize_sub_overflows(self.allocations, rhs.allocations)
    \/ usize_sub_overflows(self.deallocations, rhs.deallocations)
    \/ usize_sub_overflows(self.reallocations, rhs.reallocations)
    \/ usize_sub_overflows(self.bytes_allocated, rhs.bytes_allocated)
    \/ usize_sub_overflows(self.bytes_deallocated, rhs.bytes_deallocated)
    \/ isize_sub_overflows(self.bytes_reallocated, rhs.bytes_reallocated)

\* impl ops::Sub for Summary
sub(self, rhs) == sub_assign(self, rhs)

\* -------------------------------------------------------------- Rollup
\* a merge that replaces the Rollup's Summary
merge_overwriting(self, stats) == stats

\* Rollup::merge: *self.0.lock() += stats
merge(self, stats) == add_assign(self, stats)

\* --------------------------------------------------------- ThreadStats
\* ThreadStats::default()
ThreadStatsDefault ==
    [stats |-> Zero, last_updated |-> None, thread_total |-> Zero, reporter |-> None]

\* What one call on thread t works on: the thread's ThreadStats, the Rollups,
\* the thread's row of `merged`, and whether a dev build has panicked on the way
\* (the values are then those of the release build, which goes on).
World(t) ==
    [ts |-> thread_stats[t], rollups |-> rollups, merged |-> merged[t], panic |-> FALSE,
     access_error |-> FALSE]

\* the thread's THREAD_ALLOC_STATS can be looked up: it is not being destroyed
\* and has not been destroyed
accessible(t) == status[t] = "running"

\* THREAD_ALLOC_STATS.with(f), f leaving the world w: without access it panics
LocalKey_with(t, w) ==
    IF accessible(t) THEN w ELSE [World(t) EXCEPT !.access_error = TRUE]

LocalKey_try_with_unwrap(t, w) ==
    IF accessible(t) THEN w ELSE [World(t) EXCEPT !.access_error = TRUE]

\* let _ = THREAD_ALLOC_STATS.try_with(f): without access f is not run and the
\* AccessError is dropped
LocalKey_try_with(t, w) ==
    IF accessible(t) THEN w ELSE World(t)

set_last_updated(w, instant) == [w EXCEPT !.ts.last_updated = Some(instant)]

flush_to_forgets(w, rollup) ==
    [w EXCEPT !.rollups[rollup] = merge(@, w.ts.stats),
              !.merged[rollup] = add(@, w.ts.stats),
              !.ts.stats = Zero]

flush_to(w, rollup) ==
    [w EXCEPT !.rollups[rollup] = merge(@, w.ts.stats),
              !.merged[rollup] = add(@, w.ts.stats),
              !.ts.thread_total = add_assign(@, w.ts.stats),
              !.ts.stats = Zero,
              !.panic = \/ @
                        \/ add_assign_panics(w.rollups[rollup], w.ts.stats)
                        \/ add_assign_panics(w.ts.thread_total, w.ts.stats)]

\* ------------------------------------------------------------ Reporter
\* Reporter::rollup of each implementation
rollup_of(reporter) ==
    CASE reporter = NeverReport -> GLOBAL_ALLOC_STATS
      [] reporter = AlwaysReport -> GLOBAL_ALLOC_STATS
      [] reporter = IntervalReport -> GLOBAL_ALLOC_STATS
      [] reporter = LocalIntervalReport -> ROLLUP
      [] reporter = LocalAlwaysReport -> ROLLUP

NeverReport_report_flushes(w) == flush_to(w, GLOBAL_ALLOC_STATS)

NeverReport_report(w) == w

AlwaysReport_report_never(w) == w

AlwaysReport_report(w) == flush_to(w, GLOBAL_ALLOC_STATS)

IntervalReport_report_ge(w) ==
    IF w.ts.last_updated # None
    THEN IF now - unwrap(w.ts.last_updated) >= Interval
         THEN set_last_updated(flush_to(w, rollup_of(IntervalReport)), now)
         ELSE w
    ELSE set_last_updated(w, now)

IntervalReport_report(w) ==
    IF w.ts.last_updated # None
    THEN IF now - unwrap(w.ts.last_updated) > Interval
         THEN set_last_updated(flush_to(w, rollup_of(IntervalReport)), now)
         ELSE w
    ELSE set_last_updated(w, now)

LocalIntervalReport_report(w) ==
    IF w.ts.last_updated # None
    THEN IF now - unwrap(w.ts.last_updated) > Interval
         THEN set_last_updated(
                  flush_to(flush_to(w, rollup_of(LocalIntervalReport)), GLOBAL_ALLOC_STATS),
                  now)
         ELSE w
    ELSE set_last_updated(w, now)

LocalAlwaysReport_report_global(w) == flush_to(w, GLOBAL_ALLOC_STATS)

LocalAlwaysReport_report(w) == flush_to(w, ROLLUP)

Reporter_report(reporter, w) ==
    CASE reporter = NeverReport -> NeverReport_report(w)
      [] reporter = AlwaysReport -> AlwaysReport_report(w)
      [] reporter = IntervalReport -> IntervalReport_report(w)
      [] reporter = LocalIntervalReport -> LocalIntervalReport_report(w)
      [] reporter = LocalAlwaysReport -> LocalAlwaysReport_report(w)

\* a dispatch that never looks at the thread's own reporter
report_default_only(w) == Reporter_report(default_reporter, w)

\* ThreadStats::report
report(w) ==
    IF w.ts.reporter # None
    THEN Reporter_report(unwrap(w.ts.reporter), w)
    ELSE Reporter_report(default_reporter, w)

\* the Rollup ThreadStats::flush and Drop merge into
flush_rollup(ts) ==
    IF ts.reporter # None THEN rollup_of(unwrap(ts.reporter)) ELSE GLOBAL_ALLOC_STATS

flush_to_global(w) == set_last_updated(flush_to(w, GLOBAL_ALLOC_STATS), now)

\* the closure of ThreadStats::flush
flush(w) == set_last_updated(flush_to(w, flush_rollup(w.ts)), now)

set_thread_reporter_without_flush(w, reporter) == [w EXCEPT !.ts.reporter = Some(reporter)]

\* ThreadStats::set_thread_reporter
set_thread_reporter(w, reporter) == [flush(w) EXCEPT !.ts.reporter = Some(reporter)]

drop_without_flush(w) == w

\* Drop for ThreadStats
drop(w) == flush_to(w, flush_rollup(w.ts))

summary_of_active(t) == thread_stats[t].stats

\* ThreadStats::summary() on thread t: data.stats + data.thread_total
summary(t) == add(thread_stats[t].stats, thread_stats[t].thread_total)

summary_panics(t) == add_assign_panics(thread_stats[t].stats, thread_stats[t].thread_total)

\* -------------------------------------------------------------- Region
\* Region::new() on thread t
Region_new(t) == [initial_stats |-> summary(t)]

\* Region::initial
Region_initial(self) == self.initial_stats

\* Region::change on thread t: ThreadStats::summary() - self.initial_stats
Region_change(self, t) == sub(summary(t), self.initial_stats)

Region_change_panics(self, t) ==
    summary_panics(t) \/ sub_assign_panics(summary(t), self.initial_stats)

\* a change_and_reset that leaves initial_stats as it was
Region_change_and_keep(self, t) ==
    [diff |-> sub(summary(t), self.initial_stats), self |-> self]

\* Region::change_and_reset on thread t: the value returned and the Region left
Region_change_and_reset(self, t) ==
    LET latest == summary(t)
        diff == sub(latest, self.initial_stats)
    IN  [diff |-> diff, self |-> [self EXCEPT !.initial_stats = latest]]

\* Region::reset on thread t
Region_reset(self, t) == [self EXCEPT !.initial_stats = summary(t)]

\* the events that can be replayed into a Summary
Events ==
    [op : {"allocate", "deallocate"}, size : Sizes, new_size : {0}]
        \cup [op : {"reallocate"}, size : Sizes, new_size : Sizes]

\* Summary::new() and no event replayed into it
NoReplay == [summary |-> Zero, count |-> [event \in Events |-> 0]]

\* three Summaries a, b, c and none of their sums computed yet
Operands(a, b, c) ==
    [a |-> a, b |-> b, c |-> c,
     left |-> None, right |-> None, swapped |-> None, assigned |-> None]

\* no Summary is being added
NoAlgebra == Operands(Zero, Zero, Zero)

\* StatsAlloc::new(inner): the six counters start at zero.  With them: where
\* each thread is in a call on the StatsAlloc, the request it is serving, the
\* fetch_adds its call has still to make, the values its stats() has loaded,
\* and the requests begun
StatsAlloc_new ==
    [counters |-> Zero,
     pc |-> [t \in Threads |-> "idle"],
     request |-> [t \in Threads |-> None],
     todo |-> [t \in Threads |-> <<>>],
     loaded |-> [t \in Threads |-> <<>>],
     begun |-> <<>>]

\* the history of a Region created with the statistics `first`
Life(first) == [first |-> first, calls |-> 0, results |-> Zero, reset_called |-> FALSE]

\* no Region yet
NoLife == Life(Zero)

\* ------------------------------------------------------------- actions
Init ==
    /\ default_reporter \in Reporters
    /\ thread_stats = [t \in Threads |-> ThreadStatsDefault]
    /\ status = [t \in Threads |-> IF t = MainThread THEN "running" ELSE "unstarted"]
    /\ rollups = [r \in Rollups |-> Zero]
    /\ now = 0
    /\ aborted = FALSE
    /\ ops = 0
    /\ recorded = [t \in Threads |-> Zero]
    /\ merged = [t \in Threads |-> [r \in Rollups |-> Zero]]
    /\ region = [t \in Threads |-> None]
    /\ since = [t \in Threads |-> Zero]
    /\ life = [t \in Threads |-> NoLife]
    /\ replay = NoReplay
    /\ algebra = NoAlgebra
    /\ stats_alloc = StatsAlloc_new
    /\ exhausted = FALSE
    /\ returned = None
    /\ inner = None
    /\ pc = [t \in Threads |-> "idle"]
    /\ lock = [r \in Rollups |-> None]
    /\ plan = [t \in Threads |-> <<>>]
    /\ field = [t \in Threads |-> 0]
    /\ merges = [r \in Rollups |-> <<>>]

\* thread t can make a call: it runs, or it is still running the destructors of
\* its other thread-locals after its ThreadStats was dropped
CanCall(t) == status[t] \in {"running", "exited"} /\ ~aborted /\ ops < MaxOps

\* a dev build panicked: the process aborts, nothing of it is observed afterwards
Abort ==
    /\ aborted' = TRUE
    /\ returned' = None
    /\ inner' = None
    /\ UNCHANGED <<default_reporter, thread_stats, status, rollups, now, ops, recorded, merged,
                   region, since, life, replay, lockvars, sidevars>>

\* the null pointer alloc, alloc_zeroed and realloc return when they fail
null == "null"

\* the wrapped allocator's answer to a call: a value this crate does not look
\* into, null when the allocator is out of memory (dealloc returns nothing
\* that could tell)
InnerResult(call) ==
    IF exhausted /\ call.op \in {"alloc", "alloc_zeroed", "realloc"}
    THEN null
    ELSE <<"result of", call.op, call.size, call.new_size>>

\* self.inner.<op>(..): the call is made and its result is the value returned
Delegated(call) ==
    /\ inner' = Some([call EXCEPT !.result = InnerResult(call)])
    /\ returned' = Some(InnerResult(call))

\* a call that stays inside this crate
NotDelegated == inner' = None /\ returned' = None

\* the arguments of a call to the GlobalAlloc `op`
Call(op, size, new_size) == [op |-> op, size |-> size, new_size |-> new_size, result |-> "?"]

\* thread t's call ended in world w, having recorded the event `event`; `call`
\* is what it hands on to the wrapped allocator
Commit(t, w, event, call) ==
    \/ (w.panic \/ w.access_error) /\ Abort
    \/ /\ ~w.access_error
       /\ thread_stats' = [thread_stats EXCEPT ![t] = w.ts]
       /\ rollups' = w.rollups
       /\ merged' = [merged EXCEPT ![t] = w.merged]
       /\ recorded' = [recorded EXCEPT ![t] = add(@, event)]
       /\ since' = [since EXCEPT ![t] = add(@, event)]
       /\ ops' = ops + 1
       /\ IF call = None THEN NotDelegated ELSE Delegated(unwrap(call))
       /\ UNCHANGED <<default_reporter, status, now, aborted, region, life, replay, lockvars, sidevars>>

\* an alloc that takes back the event when the wrapped allocator fails
AllocOp_counting_successes(t, size, op) ==
    /\ CanCall(t)
    /\ Commit(t,
              IF exhausted
              THEN World(t)
              ELSE LocalKey_try_with(t,
                       report([World(t) EXCEPT
                                  !.ts.stats = allocate(@, size),
                                  !.panic = allocate_panics(thread_stats[t].stats, size)])),
              IF accessible(t) /\ ~exhausted THEN allocate(Zero, size) ELSE Zero,
              Some(Call(op, size, 0)))

\* Instrumented::alloc and Instrumented::alloc_zeroed -> ThreadStats::alloc
AllocOp(t, size, op) ==
    /\ CanCall(t)
    /\ Commit(t,
              LocalKey_try_with(t,
                  report([World(t) EXCEPT !.ts.stats = allocate(@, size),
                                          !.panic = allocate_panics(thread_stats[t].stats, size)])),
              IF accessible(t) THEN allocate(Zero, size) ELSE Zero,
              Some(Call(op, size, 0)))

\* Instrumented::alloc
Alloc(t, size) == AllocOp(t, size, "alloc")

\* Instrumented::alloc_zeroed
AllocZeroed(t, size) == AllocOp(t, size, "alloc_zeroed")

\* Instrumented::dealloc -> ThreadStats::dealloc
Dealloc(t, size) ==
    /\ CanCall(t)
    /\ Commit(t,
              LocalKey_try_with(t,
                  report([World(t) EXCEPT !.ts.stats = deallocate(@, size),
                                          !.panic = deallocate_panics(thread_stats[t].stats, size)])),
              IF accessible(t) THEN deallocate(Zero, size) ELSE Zero,
              Some(Call("dealloc", size, 0)))

\* Instrumented::realloc -> ThreadStats::realloc
Realloc(t, old_size, new_size) ==
    /\ CanCall(t)
    /\ Commit(t,
              LocalKey_try_with(t,
                  report([World(t) EXCEPT
                             !.ts.stats = reallocate(@, old_size, new_size),
                             !.panic = reallocate_panics(thread_stats[t].stats, old_size, new_size)])),
              IF accessible(t) THEN reallocate(Zero, old_size, new_size) ELSE Zero,
              Some(Call("realloc", old_size, new_size)))

\* ThreadStats::flush()
Flush(t) ==
    /\ CanCall(t)
    /\ Commit(t, LocalKey_with(t, flush(World(t))), Zero, None)

\* ThreadStats::set_thread_reporter(reporter)
SetThreadReporter(t, reporter) ==
    /\ CanCall(t)
    /\ Commit(t, LocalKey_with(t, set_thread_reporter(World(t), reporter)), Zero, None)

\* ThreadStats::summary(): THREAD_ALLOC_STATS.with(..) returns stats + thread_total
Summary(t) ==
    /\ CanCall(t)
    /\ \/ (~accessible(t) \/ summary_panics(t)) /\ Abort
       \/ /\ accessible(t)
          /\ returned' = Some(summary(t))
          /\ inner' = None
          /\ ops' = ops + 1
          /\ UNCHANGED <<default_reporter, thread_stats, status, rollups, now, aborted,
                         recorded, merged, region, since, life, replay, lockvars, sidevars>>

\* a Region call of thread t ended: it panicked (in ThreadStats::summary(),
\* whose `with` needs the ThreadStats, or on overflow), or left the Region `self`
\* and returned `value`; `rebased` tells whether initial_stats was replaced, l
\* is the history of the Region after the call
RegionCall(t, panics, self, value, rebased, l) ==
    \/ (panics \/ ~accessible(t)) /\ Abort
    \/ /\ accessible(t)
       /\ region' = [region EXCEPT ![t] = Some(self)]
       /\ returned' = value
       /\ since' = IF rebased THEN [since EXCEPT ![t] = Zero] ELSE since
       /\ life' = [life EXCEPT ![t] = l]
       /\ ops' = ops + 1
       /\ inner' = None
       /\ UNCHANGED <<default_reporter, thread_stats, status, rollups, now, aborted,
                      recorded, merged, replay, lockvars, sidevars>>

\* let region = Region::new()
RegionNew(t) ==
    /\ CanCall(t) /\ region[t] = None
    /\ RegionCall(t, summary_panics(t), Region_new(t), None, TRUE,
                  Life(Region_initial(Region_new(t))))

\* region.change()
RegionChange(t) ==
    /\ CanCall(t) /\ region[t] # None
    /\ RegionCall(t, Region_change_panics(unwrap(region[t]), t), unwrap(region[t]),
                  Some(Region_change(unwrap(region[t]), t)), FALSE, life[t])

\* region.change_and_reset()
RegionChangeAndReset(t) ==
    /\ CanCall(t) /\ region[t] # None
    /\ RegionCall(t, Region_change_panics(unwrap(region[t]), t),
                  Region_change_and_reset(unwrap(region[t]), t).self,
                  Some(Region_change_and_reset(unwrap(region[t]), t).diff), TRUE,
                  [life[t] EXCEPT
                      !.calls = @ + 1,
                      !.results = add(@, Region_change_and_reset(unwrap(region[t]), t).diff)])

\* region.reset()
RegionReset(t) ==
    /\ CanCall(t) /\ region[t] # None
    /\ RegionCall(t, summary_panics(t), Region_reset(unwrap(region[t]), t), None, TRUE,
                  [life[t] EXCEPT !.reset_called = TRUE])

\* the Summary `event` leaves when applied to self, and whether a dev build
\* panics on the way
apply(self, event) ==
    CASE event.op = "allocate" ->
             [summary |-> allocate(self, event.size),
              panic |-> allocate_panics(self, event.size)]
      [] event.op = "deallocate" ->
             [summary |-> deallocate(self, event.size),
              panic |-> deallocate_panics(self, event.size)]
      [] event.op = "reallocate" ->
             [summary |-> reallocate(self, event.size, event.new_size),
              panic |-> reallocate_panics(self, event.size, event.new_size)]

\* summary.allocate(..), summary.deallocate(..) or summary.reallocate(..) on the
\* Summary of `replay`
Replay(event) ==
    /\ ~aborted /\ ops < MaxOps
    /\ \/ apply(replay.summary, event).panic /\ Abort
       \/ /\ replay' = [summary |-> apply(replay.summary, event).summary,
                        count |-> [replay.count EXCEPT ![event] = @ + 1]]
          /\ ops' = ops + 1
          /\ NotDelegated
          /\ UNCHANGED <<default_reporter, thread_stats, status, rollups, now, aborted,
                         recorded, merged, region, since, life, lockvars, sidevars>>

\* ReplaySpec replays sequences of events into one Summary that starts at zero
ReplayNext == \E event \in Events : Replay(event)

ReplaySpec == Init /\ [][ReplayNext]_vars

\* ------------------------------------------------------------ StatsAlloc
\* the requests made to a GlobalAlloc
Requests ==
    [op : {"alloc", "alloc_zeroed", "dealloc"}, size : Sizes, new_size : {0}]
        \cup [op : {"realloc"}, size : Sizes, new_size : Sizes]

\* the fetch_add calls of GlobalAlloc for StatsAlloc, in order, as <<counter, value>>
fetch_adds(request) ==
    CASE request.op \in {"alloc", "alloc_zeroed"} ->
             << <<"allocations", 1>>, <<"bytes_allocated", request.size>> >>
      [] request.op = "dealloc" ->
             << <<"deallocations", 1>>, <<"bytes_deallocated", request.size>> >>
      [] request.op = "realloc" ->
             << <<"reallocations", 1>> >>
             \o (IF request.new_size > request.size
                 THEN << <<"bytes_allocated", request.new_size - request.size>> >>
                 ELSE IF request.new_size < request.size
                 THEN << <<"bytes_deallocated", request.size - request.new_size>> >>
                 ELSE << >>)
             \o << <<"bytes_reallocated",
                     as_isize(wrapping_sub(request.new_size, request.size))>> >>

\* AtomicUsize::fetch_add and AtomicIsize::fetch_add wrap around on overflow
fetch_add(counters, counter, value) ==
    [counters EXCEPT ![counter] = IF counter = "bytes_reallocated"
                                  THEN isize_wrapping_add(@, value)
                                  ELSE wrapping_add(@, value)]

RECURSIVE fetch_add_all(_, _)
fetch_add_all(counters, adds) ==
    IF adds = <<>> THEN counters
    ELSE fetch_add_all(fetch_add(counters, Head(adds)[1], Head(adds)[2]), Tail(adds))

\* the counters after a whole call of GlobalAlloc for StatsAlloc
StatsAlloc_call(counters, request) == fetch_add_all(counters, fetch_adds(request))

\* StatsAlloc::stats() with no call under way: the six counters as a Stats
StatsAlloc_stats(counters) ==
    [allocations |-> counters.allocations,
     deallocations |-> counters.deallocations,
     reallocations |-> counters.reallocations,
     bytes_allocated |-> counters.bytes_allocated,
     bytes_deallocated |-> counters.bytes_deallocated,
     bytes_reallocated |-> counters.bytes_reallocated]

\* the event ThreadStats records for a request made to Instrumented
event_of(request) ==
    CASE request.op \in {"alloc", "alloc_zeroed"} ->
             [op |-> "allocate", size |-> request.size, new_size |-> 0]
      [] request.op = "dealloc" ->
             [op |-> "deallocate", size |-> request.size, new_size |-> 0]
      [] request.op = "realloc" ->
             [op |-> "reallocate", size |-> request.size, new_size |-> request.new_size]

\* one request made to a StatsAlloc and recorded in a Summary as ThreadStats
\* records it behind Instrumented; both hand the request on
Request(request) ==
    /\ ~aborted /\ ops < MaxOps
    /\ \/ apply(replay.summary, event_of(request)).panic /\ Abort
       \/ /\ replay' = [summary |-> apply(replay.summary, event_of(request)).summary,
                        count |-> [replay.count EXCEPT ![event_of(request)] = @ + 1]]
          /\ stats_alloc' = [stats_alloc EXCEPT
                                 !.counters = StatsAlloc_call(@, request),
                                 !.begun = Append(@, request)]
          /\ ops' = ops + 1
          /\ Delegated(Call(request.op, request.size, request.new_size))
          /\ UNCHANGED <<default_reporter, thread_stats, status, rollups, now, aborted,
                         recorded, merged, region, since, life, lockvars, algebra, exhausted>>

\* AgreeSpec makes the same requests, one after the other, to the two
\* implementations
AgreeNext == \E request \in Requests : Request(request)

AgreeSpec == Init /\ [][AgreeNext]_vars

\* ---------------------------------------------------- adding Summaries
\* the Summaries one event leaves, and Summary::new()
OneEventSummaries == {Zero} \cup {apply(Zero, event).summary : event \in Events}

\* AlgebraSpec draws three Summaries and computes their sum in four ways, once
\* each.  The reporter policy plays no part: it is fixed.
AlgebraInit ==
    /\ default_reporter = NeverReport
    /\ thread_stats = [t \in Threads |-> ThreadStatsDefault]
    /\ status = [t \in Threads |-> IF t = MainThread THEN "running" ELSE "unstarted"]
    /\ rollups = [r \in Rollups |-> Zero]
    /\ now = 0
    /\ aborted = FALSE
    /\ ops = 0
    /\ recorded = [t \in Threads |-> Zero]
    /\ merged = [t \in Threads |-> [r \in Rollups |-> Zero]]
    /\ region = [t \in Threads |-> None]
    /\ since = [t \in Threads |-> Zero]
    /\ life = [t \in Threads |-> NoLife]
    /\ replay = NoReplay
    /\ algebra \in {Operands(a, b, c) : a \in OneEventSummaries, b \in OneEventSummaries,
                                        c \in OneEventSummaries}
    /\ stats_alloc = StatsAlloc_new
    /\ exhausted = FALSE
    /\ returned = None
    /\ inner = None
    /\ pc = [t \in Threads |-> "idle"]
    /\ lock = [r \in Rollups |-> None]
    /\ plan = [t \in Threads |-> <<>>]
    /\ field = [t \in Threads |-> 0]
    /\ merges = [r \in Rollups |-> <<>>]

\* the sum x op y op z computed as `which`: first x op y, then the result op z;
\* a dev build panics when either addition overflows
Computed(which, sum, panics) ==
    /\ ~aborted
    /\ algebra[which] = None
    /\ \/ panics /\ Abort
       \/ /\ algebra' = [algebra EXCEPT ![which] = Some(sum)]
          /\ returned' = Some(sum)
          /\ inner' = None
          /\ UNCHANGED <<default_reporter, thread_stats, status, rollups, now, aborted, ops,
                         recorded, merged, region, since, life, replay, lockvars,
                         stats_alloc, exhausted>>

\* (a + b) + c
AddLeft ==
    Computed("left", add(add(algebra.a, algebra.b), algebra.c),
             \/ add_assign_panics(algebra.a, algebra.b)
             \/ add_assign_panics(add(algebra.a, algebra.b), algebra.c))

\* a + (b + c)
AddRight ==
    Computed("right", add(algebra.a, add(algebra.b, algebra.c)),
             \/ add_assign_panics(algebra.b, algebra.c)
             \/ add_assign_panics(algebra.a, add(algebra.b, algebra.c)))

\* a + c + b
AddSwapped ==
    Computed("swapped", add(add(algebra.a, algebra.c), algebra.b),
             \/ add_assign_panics(algebra.a, algebra.c)
             \/ add_assign_panics(add(algebra.a, algebra.c), algebra.b))

\* let mut x = a; x += b; x += c
AddAssigned ==
    Computed("assigned", add_assign(add_assign(algebra.a, algebra.b), algebra.c),
             \/ add_assign_panics(algebra.a, algebra.b)
             \/ add_assign_panics(add_assign(algebra.a, algebra.b), algebra.c))

AlgebraNext == AddLeft \/ AddRight \/ AddSwapped \/ AddAssigned

AlgebraSpec == AlgebraInit /\ [][AlgebraNext]_vars

\* the thread terminates: its ThreadStats is dropped
Teardown(t) ==
    /\ status[t] = "running" /\ ~aborted
    /\ LET w == drop(World(t))
       IN  \/ w.panic /\ Abort
           \/ /\ thread_stats' = [thread_stats EXCEPT ![t] = w.ts]
              /\ rollups' = w.rollups
              /\ merged' = [merged EXCEPT ![t] = w.merged]
              /\ status' = [status EXCEPT ![t] = "exited"]
              /\ region' = [region EXCEPT ![t] = None]
              /\ NotDelegated
              /\ UNCHANGED <<default_reporter, now, aborted, ops, recorded, since, life, replay, lockvars, sidevars>>

\* std::thread::spawn: the thread starts with a fresh ThreadStats.  A spawn is
\* charged as two operations, which keeps the interleavings of two threads
\* shallower than the runs of one.
Spawn(t) ==
    /\ status[t] = "unstarted" /\ ~aborted /\ ops + 2 <= MaxOps
    /\ status' = [status EXCEPT ![t] = "running"]
    /\ ops' = ops + 2
    /\ NotDelegated
    /\ UNCHANGED <<default_reporter, thread_stats, rollups, now, aborted, recorded, merged,
                   region, since, life, replay, lockvars, sidevars>>

\* time passes before a further call is made
Tick ==
    /\ ~aborted
    /\ now < MaxTime /\ ops < MaxOps
    /\ now' = now + 1
    /\ NotDelegated
    /\ UNCHANGED <<default_reporter, thread_stats, status, rollups, aborted, ops, recorded, merged,
                   region, since, life, replay, lockvars, sidevars>>

\* Spec: the calls threads make while their ThreadStats is alive, and their
\* teardown.  What a thread does after its ThreadStats was dropped is followed
\* in TeardownSpec.
Next ==
    \/ \E t \in Threads, size \in Sizes : accessible(t) /\ Alloc(t, size)
    \/ \E t \in Threads, size \in Sizes : accessible(t) /\ Dealloc(t, size)
    \/ \E t \in Threads, old_size \in Sizes, new_size \in Sizes :
          accessible(t) /\ Realloc(t, old_size, new_size)
    \/ \E t \in Threads : accessible(t) /\ Flush(t)
    \/ \E t \in Threads, reporter \in Reporters : accessible(t) /\ SetThreadReporter(t, reporter)
    \/ \E t \in Threads : Teardown(t)
    \/ \E t \in Threads : Spawn(t)
    \/ Tick

Spec == Init /\ [][Next]_vars

\* A Region looks at the thread that holds it: RegionSpec follows one thread,
\* its allocator events, flushes and reporters, and the Region it holds.
RegionNext ==
    \/ \E size \in Sizes : Alloc(MainThread, size)
    \/ \E size \in Sizes : Dealloc(MainThread, size)
    \/ \E old_size \in Sizes, new_size \in Sizes : Realloc(MainThread, old_size, new_size)
    \/ Flush(MainThread)
    \/ \E reporter \in Reporters : SetThreadReporter(MainThread, reporter)
    \/ RegionNew(MainThread)
    \/ RegionChange(MainThread)
    \/ RegionChangeAndReset(MainThread)
    \/ RegionReset(MainThread)
    \/ Tick

RegionSpec == Init /\ [][RegionNext]_vars

\* TeardownSpec follows one thread through the four allocator operations, its
\* calls into ThreadStats and Region, the drop of its ThreadStats, and the calls
\* it still makes afterwards (from the destructors of its other thread-locals).
\* Access to a thread-local does not depend on the time: no Instant passes here.
TeardownNext ==
    \/ \E size \in Sizes : Alloc(MainThread, size)
    \/ \E size \in Sizes : AllocZeroed(MainThread, size)
    \/ \E size \in Sizes : Dealloc(MainThread, size)
    \/ \E old_size \in Sizes, new_size \in Sizes : Realloc(MainThread, old_size, new_size)
    \/ Flush(MainThread)
    \/ Summary(MainThread)
    \/ \E reporter \in Reporters : SetThreadReporter(MainThread, reporter)
    \/ RegionNew(MainThread)
    \/ Teardown(MainThread)

TeardownSpec == Init /\ [][TeardownNext]_vars

\* the wrapped allocator runs out of memory: from now on it returns null
Exhaust ==
    /\ ~exhausted /\ ~aborted
    /\ exhausted' = TRUE
    /\ NotDelegated
    /\ UNCHANGED <<default_reporter, thread_stats, status, rollups, now, aborted, ops, recorded,
                   merged, region, since, life, replay, lockvars, algebra, stats_alloc>>

\* ExhaustSpec follows one thread through the four allocator operations and
\* flush() while the wrapped allocator may run out of memory.
ExhaustNext ==
    \/ \E size \in Sizes : Alloc(MainThread, size)
    \/ \E size \in Sizes : AllocZeroed(MainThread, size)
    \/ \E size \in Sizes : Dealloc(MainThread, size)
    \/ \E old_size \in Sizes, new_size \in Sizes : Realloc(MainThread, old_size, new_size)
    \/ Flush(MainThread)
    \/ Exhaust

ExhaustSpec == Init /\ [][ExhaustNext]_vars

\* ------------------------------------------------------------ readings
\* the Reporter ThreadStats::report dispatches to on thread t
in_effect(t) ==
    IF thread_stats[t].reporter # None
    THEN unwrap(thread_stats[t].reporter)
    ELSE default_reporter

\* an allocator event is recorded on thread t in this step
EventStep(t) ==
    \/ \E size \in Sizes : Alloc(t, size) \/ AllocZeroed(t, size) \/ Dealloc(t, size)
    \/ \E old_size \in Sizes, new_size \in Sizes : Realloc(t, old_size, new_size)

\* the Summary of the event recorded on thread t in this step
EventOf(t) == sub(recorded'[t], recorded[t])

\* ------------------------------------------- a flush, step by step
\* LockSpec follows one call at a time through ThreadStats::flush_to and
\* Rollup::merge: the Mutex is taken, AddAssign adds the six fields one after
\* the other, the Mutex is released, thread_total and stats are updated.
\* Instants are left out: an interval policy may or may not find its interval
\* elapsed.

\* the fields of Summary in the order AddAssign adds them
Fields ==
    <<"allocations", "deallocations", "reallocations",
      "bytes_allocated", "bytes_deallocated", "bytes_reallocated">>

\* the i-th `self.f += rhs.f` of AddAssign
add_assign_field(self, rhs, i) ==
    [self EXCEPT ![Fields[i]] =
        IF Fields[i] = "bytes_reallocated"
        THEN isize_wrapping_add(@, rhs[Fields[i]])
        ELSE wrapping_add(@, rhs[Fields[i]])]

add_assign_field_panics(self, rhs, i) ==
    IF Fields[i] = "bytes_reallocated"
    THEN isize_add_overflows(self[Fields[i]], rhs[Fields[i]])
    ELSE usize_add_overflows(self[Fields[i]], rhs[Fields[i]])

lock_ignored(rollup) == TRUE

\* Mutex::lock gets past its spin loop only while nobody holds the Mutex
lock_is_free(rollup) == lock[rollup] = None

unlock_never(l, rollup) == l

\* the MutexGuard is dropped at the end of Rollup::merge / Rollup::summary
unlock(l, rollup) == [l EXCEPT ![rollup] = None]

\* the Rollups a Reporter's report() may call flush_to on, in order
report_plans(reporter) ==
    CASE reporter = NeverReport -> {<<>>}
      [] reporter = AlwaysReport -> {<<GLOBAL_ALLOC_STATS>>}
      [] reporter = IntervalReport -> {<<>>, <<rollup_of(IntervalReport)>>}
      [] reporter = LocalIntervalReport ->
             {<<>>, <<rollup_of(LocalIntervalReport), GLOBAL_ALLOC_STATS>>}
      [] reporter = LocalAlwaysReport -> {<<ROLLUP>>}

LockInit ==
    /\ default_reporter \in Reporters
    /\ thread_stats = [t \in Threads |-> ThreadStatsDefault]
    /\ status = [t \in Threads |-> "running"]
    /\ rollups = [r \in Rollups |-> Zero]
    /\ now = 0
    /\ aborted = FALSE
    /\ ops = 0
    /\ recorded = [t \in Threads |-> Zero]
    /\ merged = [t \in Threads |-> [r \in Rollups |-> Zero]]
    /\ region = [t \in Threads |-> None]
    /\ since = [t \in Threads |-> Zero]
    /\ life = [t \in Threads |-> NoLife]
    /\ replay = NoReplay
    /\ algebra = NoAlgebra
    /\ stats_alloc = StatsAlloc_new
    /\ exhausted = FALSE
    /\ returned = None
    /\ inner = None
    /\ pc = [t \in Threads |-> "idle"]
    /\ lock = [r \in Rollups |-> None]
    /\ plan = [t \in Threads |-> <<>>]
    /\ field = [t \in Threads |-> 0]
    /\ merges = [r \in Rollups |-> <<>>]

LockCanCall(t) == status[t] = "running" /\ pc[t] = "idle" /\ ~aborted /\ ops < MaxCalls

\* thread t enters a call: the RefCell is borrowed, `stats` is the active
\* Summary after the event (if any) and p the Rollups to flush to
Begin(t, stats, panics, p, exiting) ==
    \/ panics /\ Abort
    \/ /\ thread_stats' = [thread_stats EXCEPT ![t].stats = stats]
       /\ plan' = [plan EXCEPT ![t] = p]
       /\ pc' = [pc EXCEPT ![t] = "flush_to"]
       /\ status' = IF exiting THEN [status EXCEPT ![t] = "exited"] ELSE status
       /\ ops' = ops + 1
       /\ returned' = None
       /\ UNCHANGED <<default_reporter, inner, rollups, now, aborted, recorded, merged, region, since, life, replay,
                      lock, field, merges, sidevars>>

\* ThreadStats::alloc up to the call of report()
BeginAlloc(t, size) ==
    /\ LockCanCall(t)
    /\ \E p \in report_plans(in_effect(t)) :
          Begin(t, allocate(thread_stats[t].stats, size),
                allocate_panics(thread_stats[t].stats, size), p, FALSE)

\* ThreadStats::realloc up to the call of report()
BeginRealloc(t, old_size, new_size) ==
    /\ LockCanCall(t)
    /\ \E p \in report_plans(in_effect(t)) :
          Begin(t, reallocate(thread_stats[t].stats, old_size, new_size),
                reallocate_panics(thread_stats[t].stats, old_size, new_size), p, FALSE)

\* ThreadStats::flush() up to its flush_to
BeginFlush(t) ==
    /\ LockCanCall(t)
    /\ Begin(t, thread_stats[t].stats, FALSE, <<flush_rollup(thread_stats[t])>>, FALSE)

\* Drop for ThreadStats up to its flush_to
BeginDrop(t) ==
    /\ LockCanCall(t)
    /\ Begin(t, thread_stats[t].stats, FALSE, <<flush_rollup(thread_stats[t])>>, TRUE)

\* Rollup::merge: self.0.lock()
Acquire(t) ==
    /\ pc[t] = "flush_to" /\ plan[t] # <<>> /\ ~aborted
    /\ lock_is_free(Head(plan[t]))
    /\ lock' = [lock EXCEPT ![Head(plan[t])] = Some(t)]
    /\ pc' = [pc EXCEPT ![t] = "merge"]
    /\ field' = [field EXCEPT ![t] = 0]
    /\ merges' = [merges EXCEPT ![Head(plan[t])] = Append(@, thread_stats[t].stats)]
    /\ returned' = None
    /\ UNCHANGED <<default_reporter, inner, thread_stats, status, rollups, now, aborted, ops, recorded,
                   merged, region, since, life, replay, plan, sidevars>>

\* Rollup::merge: one `+=` of *guard += stats
AddField(t) ==
    /\ pc[t] = "merge" /\ field[t] < Len(Fields) /\ ~aborted
    /\ \/ /\ add_assign_field_panics(rollups[Head(plan[t])], thread_stats[t].stats, field[t] + 1)
          /\ Abort
       \/ /\ rollups' = [rollups EXCEPT ![Head(plan[t])] =
                            add_assign_field(@, thread_stats[t].stats, field[t] + 1)]
          /\ field' = [field EXCEPT ![t] = @ + 1]
          /\ returned' = None
          /\ UNCHANGED <<default_reporter, inner, thread_stats, status, now, aborted, ops, recorded,
                         merged, region, since, life, replay, pc, lock, plan, merges, sidevars>>

\* Rollup::merge returns (the guard is dropped) and flush_to goes on, out of
\* the sight of other threads: self.thread_total += self.stats; self.stats.reset()
Release(t) ==
    /\ pc[t] = "merge" /\ field[t] = Len(Fields) /\ ~aborted
    /\ \/ add_assign_panics(thread_stats[t].thread_total, thread_stats[t].stats) /\ Abort
       \/ /\ lock' = unlock(lock, Head(plan[t]))
          /\ thread_stats' =
                [thread_stats EXCEPT ![t].thread_total = add_assign(@, thread_stats[t].stats),
                                     ![t].stats = Zero]
          /\ plan' = [plan EXCEPT ![t] = Tail(@)]
          /\ pc' = [pc EXCEPT ![t] = "flush_to"]
          /\ returned' = None
          /\ UNCHANGED <<default_reporter, inner, status, rollups, now, aborted, ops, recorded,
                         merged, region, since, life, replay, field, merges, sidevars>>

\* nothing is left to flush: the borrow ends and the call returns
Return(t) ==
    /\ pc[t] = "flush_to" /\ plan[t] = <<>> /\ ~aborted
    /\ pc' = [pc EXCEPT ![t] = "idle"]
    /\ returned' = None
    /\ UNCHANGED <<default_reporter, inner, thread_stats, status, rollups, now, aborted, ops, recorded,
                   merged, region, since, life, replay, lock, plan, field, merges, sidevars>>

\* Rollup::summary: *self.0.lock(), the copy made while the guard is held
RollupSummary(t, rollup) ==
    /\ LockCanCall(t)
    /\ lock_is_free(rollup)
    /\ returned' = Some(rollups[rollup])
    /\ ops' = ops + 1
    /\ UNCHANGED <<default_reporter, inner, thread_stats, status, rollups, now, aborted, recorded,
                   merged, region, since, life, replay, lockvars, sidevars>>

\* The lock sees an event only through the delta that is merged.  LockSpec
\* takes allocations, and the reallocations that shrink: theirs is the delta
\* that overflows a counter when it is merged a second time.
ShrunkSizes(old_size) == {new_size \in Sizes : new_size < old_size}

\* the steps thread t takes inside a call
CallStep(t) == Acquire(t) \/ AddField(t) \/ Release(t) \/ Return(t)

LockNext ==
    \/ \E t \in Threads, size \in Sizes : BeginAlloc(t, size)
    \/ \E t \in Threads, old_size \in Sizes :
          \E new_size \in ShrunkSizes(old_size) : BeginRealloc(t, old_size, new_size)
    \/ \E t \in Threads : BeginFlush(t)
    \/ \E t \in Threads : BeginDrop(t)
    \/ \E t \in Threads : Acquire(t)
    \/ \E t \in Threads : AddField(t)
    \/ \E t \in Threads : Release(t)
    \/ \E t \in Threads : Return(t)
    \/ \E t \in Threads, rollup \in Rollups : RollupSummary(t, rollup)

LockSpec == LockInit /\ [][LockNext]_vars

\* every thread inside a call is scheduled again
FairLockSpec == LockSpec /\ \A t \in Threads : WF_vars(CallStep(t))

\* ------------------------------------------------------------- claims

\* C1: a reallocation from old_size down to new_size adds 1 to reallocations,
\* adds the magnitude old_size - new_size to bytes_deallocated, leaves
\* bytes_allocated unchanged and adds the signed new_size - old_size to
\* bytes_reallocated, as read by ThreadStats::summary() before and after.
C1_ShrinkAddsMagnitude ==
    [][\A t \in Threads, old_size \in Sizes, new_size \in Sizes :
          (old_size > new_size /\ Realloc(t, old_size, new_size) /\ ~aborted') =>
              /\ summary(t)'.reallocations = summary(t).reallocations + 1
              /\ summary(t)'.bytes_deallocated =
                     summary(t).bytes_deallocated + (old_size - new_size)
              /\ summary(t)'.bytes_allocated = summary(t).bytes_allocated
              /\ summary(t)'.bytes_reallocated =
                     summary(t).bytes_reallocated + (new_size - old_size)]_vars

\* C2: under LocalIntervalReport, an event that finds more than Interval
\* elapsed since last_updated, and so flushes a non-zero active Summary A,
\* increases both the named Rollup and the process default Rollup by A.
C2_LocalIntervalReportsToBoth ==
    [][\A t \in Threads :
          LET A == add(thread_stats[t].stats, EventOf(t))
          IN  ( /\ in_effect(t) = LocalIntervalReport
                /\ thread_stats[t].last_updated # None
                /\ now - unwrap(thread_stats[t].last_updated) > Interval
                /\ EventStep(t) /\ ~aborted'
                /\ A # Zero ) =>
                  /\ rollups'[ROLLUP] = add(rollups[ROLLUP], A)
                  /\ rollups'[GLOBAL_ALLOC_STATS] = add(rollups[GLOBAL_ALLOC_STATS], A)]_vars

\* C3: once a thread that never set a thread reporter has terminated under a
\* default policy reporting to the process default Rollup (NeverReport,
\* AlwaysReport, IntervalReport), what it has merged into that Rollup is exactly
\* the sum of the events recorded on it, nothing went to another Rollup, and
\* the Rollups hold exactly what the threads merged into them.
C3_TeardownDrainsToGlobal ==
    /\ \A r \in Rollups : rollups[r] = add(merged["t1"][r], merged["t2"][r])
    /\ \A t \in Threads :
          ( /\ status[t] = "exited"
            /\ thread_stats[t].reporter = None
            /\ default_reporter \in {NeverReport, AlwaysReport, IntervalReport} ) =>
              /\ merged[t][GLOBAL_ALLOC_STATS] = recorded[t]
              /\ merged[t][ROLLUP] = Zero

\* C3 witness: under NeverReport a spawned thread has recorded events, never
\* called flush() (last_updated is still None) and has terminated.
C3_Witness ==
    /\ default_reporter = NeverReport
    /\ status["t2"] = "exited"
    /\ thread_stats["t2"].reporter = None
    /\ thread_stats["t2"].last_updated = None
    /\ recorded["t2"] # Zero
    /\ rollups[GLOBAL_ALLOC_STATS] = recorded["t2"]

\* C4: while LocalAlwaysReport (bound to ROLLUP) is a thread's reporter, nothing
\* is buffered on the thread, every event recorded on it is merged into ROLLUP
\* in the same step, the thread merges nothing into the process default Rollup,
\* and no step of the thread (event, flush(), set_thread_reporter, teardown)
\* changes the process default Rollup.
C4_LocalAlwaysOnlyToRollup ==
    [][\A t \in Threads :
          (thread_stats[t].reporter = Some(LocalAlwaysReport) /\ ~aborted') =>
              /\ thread_stats[t].stats = Zero
              /\ merged'[t][GLOBAL_ALLOC_STATS] = merged[t][GLOBAL_ALLOC_STATS]
              /\ merged'[t][ROLLUP] = add(merged[t][ROLLUP], EventOf(t))
              /\ (thread_stats'[t] # thread_stats[t] \/ status'[t] # status[t]) =>
                     /\ rollups'[GLOBAL_ALLOC_STATS] = rollups[GLOBAL_ALLOC_STATS]
                     /\ rollups'[ROLLUP] = add(rollups[ROLLUP], EventOf(t))]_vars

\* C4 witness: the main thread installed LocalAlwaysReport, recorded events and
\* terminated; all of them are in ROLLUP and the process default Rollup is zero.
C4_Witness ==
    /\ default_reporter = NeverReport
    /\ thread_stats["t1"].reporter = Some(LocalAlwaysReport)
    /\ status["t1"] = "exited"
    /\ recorded["t1"].allocations + recorded["t1"].deallocations
          + recorded["t1"].reallocations = 2
    /\ rollups[ROLLUP] = recorded["t1"]
    /\ rollups[GLOBAL_ALLOC_STATS] = Zero

\* C5: under AlwaysReport with no thread reporter, in every state (so after each
\* event and before the next) the thread's active Summary is zero and every
\* event recorded on the thread is already in the process default Rollup.
C5_AlwaysNothingBuffered ==
    \A t \in Threads :
        (thread_stats[t].reporter = None /\ default_reporter = AlwaysReport) =>
            /\ thread_stats[t].stats = Zero
            /\ merged[t][GLOBAL_ALLOC_STATS] = recorded[t]
            /\ rollups[GLOBAL_ALLOC_STATS] =
                   add(merged["t1"][GLOBAL_ALLOC_STATS], merged["t2"][GLOBAL_ALLOC_STATS])

\* C5 witness: three events of three kinds were recorded on the running main
\* thread under AlwaysReport and the process default Rollup holds them.
C5_Witness ==
    /\ default_reporter = AlwaysReport
    /\ thread_stats["t1"].reporter = None
    /\ status["t1"] = "running"
    /\ recorded["t1"].allocations = 1
    /\ recorded["t1"].deallocations = 1
    /\ recorded["t1"].reallocations = 1
    /\ rollups[GLOBAL_ALLOC_STATS] = recorded["t1"]

C7_NeverEventsLeaveRollups ==
    [][\A t \in Threads :
          (thread_stats[t].reporter = None /\ default_reporter = NeverReport) =>
              /\ EventStep(t) => (rollups' = rollups /\ merged' = merged)
              /\ merged'[t] # merged[t] =>
                     \/ Flush(t)
                     \/ Teardown(t)
                     \/ \E reporter \in Reporters : SetThreadReporter(t, reporter)]_vars

\* C7 witness: three events were recorded on the running main thread under
\* NeverReport and every Rollup is still zero.
C7_Witness ==
    /\ default_reporter = NeverReport
    /\ thread_stats["t1"].reporter = None
    /\ status["t1"] = "running"
    /\ recorded["t1"].allocations = 1
    /\ recorded["t1"].deallocations = 1
    /\ recorded["t1"].reallocations = 1
    /\ \A r \in Rollups : rollups[r] = Zero

\* C8 as claimed: set_thread_reporter(reporter) merges the active Summary into
\* the Rollup of the policy that was in effect (the previous thread reporter's,
\* else the allocator's default reporter's) and into no other, leaves the
\* active Summary zero and installs the reporter.
C8_FlushesToPolicyRollup ==
    [][\A t \in Threads, reporter \in Reporters :
          (SetThreadReporter(t, reporter) /\ ~aborted') =>
              /\ rollups' = [rollups EXCEPT ![rollup_of(in_effect(t))] =
                                               add(@, thread_stats[t].stats)]
              /\ thread_stats'[t].stats = Zero
              /\ thread_stats'[t].reporter = Some(reporter)]_vars

\* C8 as amended: set_thread_reporter(reporter) merges the active Summary into
\* the Rollup flush() uses (the previous thread reporter's, else the process
\* default Rollup whatever the allocator's default reporter is) and into no
\* other, adds it to thread_total, leaves the active Summary zero, so that
\* nothing recorded before the call is left for the new policy to merge, and
\* installs the reporter.
C8_FlushesThenInstalls ==
    [][\A t \in Threads, reporter \in Reporters :
          (SetThreadReporter(t, reporter) /\ ~aborted') =>
              /\ rollups' = [rollups EXCEPT ![flush_rollup(thread_stats[t])] =
                                               add(@, thread_stats[t].stats)]
              /\ thread_stats'[t].thread_total =
                     add(thread_stats[t].thread_total, thread_stats[t].stats)
              /\ thread_stats'[t].stats = Zero
              /\ thread_stats'[t].reporter = Some(reporter)]_vars

\* C8 witness: with LocalIntervalReport as the allocator's default, one event
\* was buffered on the main thread and set_thread_reporter(NeverReport) then
\* flushed it: it is in the process default Rollup, not in ROLLUP.
C8_Witness ==
    /\ default_reporter = LocalIntervalReport
    /\ thread_stats["t1"].reporter = Some(NeverReport)
    /\ ops = 2
    /\ recorded["t1"] # Zero
    /\ thread_stats["t1"].stats = Zero
    /\ rollups[GLOBAL_ALLOC_STATS] = recorded["t1"]
    /\ rollups[ROLLUP] = Zero

\* C9: flush() merges the active Summary A into exactly one Rollup, the thread
\* reporter's if one is set and the process default Rollup otherwise, adds A to
\* thread_total, leaves the active Summary zero and sets last_updated to now.
C9_Flush ==
    [][\A t \in Threads :
          (Flush(t) /\ ~aborted') =>
              LET A == thread_stats[t].stats
                  target == IF thread_stats[t].reporter = None
                            THEN GLOBAL_ALLOC_STATS
                            ELSE rollup_of(unwrap(thread_stats[t].reporter))
              IN  /\ rollups' = [rollups EXCEPT ![target] = add(@, A)]
                  /\ thread_stats'[t].thread_total = add(thread_stats[t].thread_total, A)
                  /\ thread_stats'[t].stats = Zero
                  /\ thread_stats'[t].last_updated = Some(now)
                  /\ thread_stats'[t].reporter = thread_stats[t].reporter]_vars

\* C9 witness: the main thread set LocalIntervalReport, buffered one event and
\* flushed it at time 0, when the policy itself cannot have fired: the event
\* is in ROLLUP and thread_total, and last_updated is now.
C9_Witness ==
    /\ default_reporter = NeverReport
    /\ thread_stats["t1"].reporter = Some(LocalIntervalReport)
    /\ status["t1"] = "running"
    /\ now = 0
    /\ ops = 3
    /\ recorded["t1"] # Zero
    /\ thread_stats["t1"].stats = Zero
    /\ thread_stats["t1"].thread_total = recorded["t1"]
    /\ thread_stats["t1"].last_updated = Some(0)
    /\ rollups[ROLLUP] = recorded["t1"]
    /\ rollups[GLOBAL_ALLOC_STATS] = Zero

\* C10: ThreadStats::summary(), active + thread_total, always equals the sum of
\* the events recorded on the thread: no flush (explicit, triggered by a policy,
\* by set_thread_reporter or at teardown) changes it, only a recorded event does.
C10_SummaryIsRecorded ==
    \A t \in Threads : summary(t) = recorded[t]

\* C10 witness: on the main thread part of the events has been flushed into
\* thread_total and another part is still in the active Summary.
C10_Witness ==
    /\ thread_stats["t1"].thread_total # Zero
    /\ thread_stats["t1"].stats # Zero
    /\ thread_stats["t1"].reporter # None

\* C11: whatever the reporting policy and whatever flushes happened in
\* between, the difference between ThreadStats::summary() now and the reading
\* a Region took when it was created or last rebased (what Region::change
\* returns) is the field-wise sum of the events recorded on the thread since
\* then: zero when there was none, and allocations 1, bytes_allocated size,
\* deallocations 0 after a single allocation of `size` bytes.
C11_ChangeIsEventsSince ==
    /\ [](\A t \in Threads :
             region[t] # None => Region_change(unwrap(region[t]), t) = since[t])
    /\ [][\A t \in Threads :
             /\ RegionChange(t) /\ ~aborted' => returned' = Some(since[t])
             /\ \A size \in Sizes :
                    (Alloc(t, size) /\ ~aborted' /\ region[t] # None /\ since[t] = Zero)
                    => /\ Region_change(unwrap(region[t]), t) = Zero
                       /\ Region_change(unwrap(region[t]), t)' =
                              [Zero EXCEPT !.allocations = 1, !.bytes_allocated = size]]_vars

\* a Region read after an event that was flushed to a Rollup in between
C11_Witness ==
    /\ region["t1"] # None
    /\ returned # None
    /\ unwrap(returned) = since["t1"]
    /\ since["t1"].allocations = 1
    /\ thread_stats["t1"].thread_total # Zero
    /\ thread_stats["t1"].stats = Zero

\* the field-wise sum of the deltas deltas[i], i \in S
RECURSIVE SumOver(_, _)
SumOver(deltas, S) ==
    IF S = {}
    THEN Zero
    ELSE LET i == CHOOSE i \in S : TRUE
         IN  add(deltas[i], SumOver(deltas, S \ {i}))

\* what a Rollup holds after a set of whole merge() calls, for every such set
WholeMerges(rollup) == {SumOver(merges[rollup], S) : S \in SUBSET DOMAIN merges[rollup]}

\* C12: with threads merging into and reading the same Rollup concurrently,
\* every value Rollup::summary() returns is the field-wise sum of the deltas of
\* a set of whole merge() calls (never a merge that has updated some of the six
\* counters but not the others), and whenever no merge is in progress on a
\* Rollup it holds the sum of all the merges made on it: none lost, none twice.
C12_SummaryOfWholeMerges ==
    /\ [][\A t \in Threads, rollup \in Rollups :
             RollupSummary(t, rollup) => unwrap(returned') \in WholeMerges(rollup)]_vars
    /\ [](\A rollup \in Rollups :
             lock[rollup] = None =>
                 rollups[rollup] = SumOver(merges[rollup], DOMAIN merges[rollup]))

\* a Rollup read while another thread is inside a call that has already merged
\* into it
C12_Witness ==
    /\ returned # None
    /\ unwrap(returned) # Zero
    /\ \E t \in Threads : pc[t] # "idle"
    /\ \E rollup \in Rollups : Len(merges[rollup]) > 0 /\ unwrap(returned) = rollups[rollup]

\* the step hands `call` to the wrapped allocator, once, and returns its answer
HandsOn(call) ==
    /\ inner' = Some([call EXCEPT !.result = InnerResult(call)])
    /\ returned' = Some(InnerResult(call))

\* C13: each of alloc, dealloc, alloc_zeroed and realloc of the instrumented
\* allocator calls the same operation of the wrapped allocator once, with the
\* same arguments, and returns its result unchanged, whatever the reporter
\* policy and whatever the state of the thread's statistics.
C13_DelegatesUnconditionally ==
    [][\A t \in Threads :
          /\ \A size \in Sizes :
                /\ Alloc(t, size) => HandsOn(Call("alloc", size, 0))
                /\ AllocZeroed(t, size) => HandsOn(Call("alloc_zeroed", size, 0))
                /\ Dealloc(t, size) => HandsOn(Call("dealloc", size, 0))
          /\ \A old_size \in Sizes, new_size \in Sizes :
                Realloc(t, old_size, new_size) => HandsOn(Call("realloc", old_size, new_size))]_vars

\* C14: an allocation, deallocation or reallocation request made on a thread
\* whose ThreadStats can no longer be looked up records no event, changes no
\* Rollup and nothing of the thread's statistics, raises no panic, and is still
\* handed on to the wrapped allocator.
C14_LateEventsAreSkipped ==
    [][\A t \in Threads :
          (EventStep(t) /\ ~accessible(t)) =>
              /\ ~aborted'
              /\ inner' # None /\ returned' = Some(unwrap(inner').result)
              /\ UNCHANGED <<thread_stats, rollups, recorded, merged>>]_vars

\* a reallocation made after the thread's ThreadStats, which had recorded
\* events, was dropped
C14_Witness ==
    /\ status["t1"] = "exited"
    /\ ~aborted
    /\ inner # None
    /\ unwrap(inner).op = "realloc"
    /\ recorded["t1"] # Zero
    /\ rollups[GLOBAL_ALLOC_STATS] = recorded["t1"]

\* C15: no lookup of the calling thread's ThreadStats made after the
\* thread-local has begun destruction panics: not those of ThreadStats::flush(),
\* ThreadStats::summary(), ThreadStats::set_thread_reporter() and Region, and
\* not those of allocation events.
C15_LateLookupsNeverPanic ==
    [][\A t \in Threads :
          (/\ ~accessible(t)
           /\ \/ Flush(t)
              \/ Summary(t)
              \/ \E reporter \in Reporters : SetThreadReporter(t, reporter)
              \/ RegionNew(t)
              \/ EventStep(t))
          => ~aborted']_vars

\* the Rollups whose Mutex thread t holds
Held(t) == {rollup \in Rollups : lock[rollup] = Some(t)}

\* C16: under fair scheduling every call that flushes (an allocator event, an
\* explicit flush, the flush of a thread's teardown) comes to its end, with any
\* built-in policy and threads contending for the same Rollups, unless a dev
\* build has panicked on an overflow; a thread never waits for a Rollup's lock
\* while it holds one, and an event is recorded on a thread only when the thread
\* is outside any call and holds no lock.
C16_CallsComplete ==
    /\ \A t \in Threads : (pc[t] # "idle") ~> (pc[t] = "idle" \/ aborted)
    /\ [](\A t \in Threads :
             /\ Cardinality(Held(t)) <= 1
             /\ pc[t] \in {"idle", "flush_to"} => Held(t) = {})
    /\ [][\A t \in Threads :
             thread_stats'[t].stats \notin {thread_stats[t].stats, Zero}
                 => pc[t] = "idle" /\ Held(t) = {}]_vars

\* a thread waits for the lock of the Rollup another thread is merging into
C16_Witness ==
    /\ pc["t1"] = "merge"
    /\ lock[Head(plan["t1"])] = Some("t1")
    /\ pc["t2"] = "flush_to"
    /\ plan["t2"] # <<>>
    /\ Head(plan["t2"]) = Head(plan["t1"])
    /\ thread_stats["t2"].stats # Zero

\* StatsAllocSpec follows two threads through their calls on one StatsAlloc,
\* one atomic operation at a time.
StatsAllocCanCall(t) ==
    status[t] = "running" /\ stats_alloc.pc[t] = "idle" /\ ~aborted /\ ops < MaxCalls

\* what a step of a call on the StatsAlloc leaves alone
StatsAllocFrame ==
    UNCHANGED <<default_reporter, thread_stats, status, rollups, now, aborted, recorded, merged,
                region, since, life, replay, lockvars, algebra, exhausted>>

\* thread t enters alloc, alloc_zeroed, dealloc or realloc of the StatsAlloc
StatsAllocBegin(t, request) ==
    /\ StatsAllocCanCall(t)
    /\ stats_alloc' = [stats_alloc EXCEPT !.pc[t] = "adding",
                                          !.request[t] = Some(request),
                                          !.todo[t] = fetch_adds(request),
                                          !.begun = Append(@, request)]
    /\ ops' = ops + 1
    /\ NotDelegated
    /\ StatsAllocFrame

\* the next self.<counter>.fetch_add(value, Ordering::SeqCst) of thread t's call
FetchAdd(t) ==
    /\ stats_alloc.pc[t] = "adding" /\ stats_alloc.todo[t] # <<>>
    /\ stats_alloc' = [stats_alloc EXCEPT
                           !.counters = fetch_add(@, Head(stats_alloc.todo[t])[1],
                                                     Head(stats_alloc.todo[t])[2]),
                           !.todo[t] = Tail(@)]
    /\ NotDelegated
    /\ UNCHANGED ops
    /\ StatsAllocFrame

\* self.inner.<op>(..) ends thread t's call
StatsAllocInner(t) ==
    /\ stats_alloc.pc[t] = "adding" /\ stats_alloc.todo[t] = <<>>
    /\ stats_alloc' = [stats_alloc EXCEPT !.pc[t] = "idle", !.request[t] = None]
    /\ Delegated(Call(unwrap(stats_alloc.request[t]).op, unwrap(stats_alloc.request[t]).size,
                      unwrap(stats_alloc.request[t]).new_size))
    /\ UNCHANGED ops
    /\ StatsAllocFrame

\* thread t enters StatsAlloc::stats()
StatsBegin(t) ==
    /\ StatsAllocCanCall(t)
    /\ stats_alloc' = [stats_alloc EXCEPT !.pc[t] = "loading", !.loaded[t] = <<>>]
    /\ ops' = ops + 1
    /\ NotDelegated
    /\ StatsAllocFrame

\* the next self.<counter>.load(Ordering::SeqCst) of thread t's stats()
Load(t) ==
    /\ stats_alloc.pc[t] = "loading" /\ Len(stats_alloc.loaded[t]) < Len(Fields)
    /\ stats_alloc' = [stats_alloc EXCEPT
                           !.loaded[t] =
                               Append(@, stats_alloc.counters[Fields[Len(@) + 1]])]
    /\ NotDelegated
    /\ UNCHANGED ops
    /\ StatsAllocFrame

\* the Stats built from six loaded values
Stats(loaded) == [f \in DOMAIN Zero |-> loaded[CHOOSE i \in DOMAIN Fields : Fields[i] = f]]

\* thread t's stats() returns the Stats it has loaded
StatsReturn(t) ==
    /\ stats_alloc.pc[t] = "loading" /\ Len(stats_alloc.loaded[t]) = Len(Fields)
    /\ stats_alloc' = [stats_alloc EXCEPT !.pc[t] = "idle", !.loaded[t] = <<>>]
    /\ returned' = Some(Stats(stats_alloc.loaded[t]))
    /\ inner' = None
    /\ UNCHANGED ops
    /\ StatsAllocFrame

StatsAllocNext ==
    \/ \E t \in Threads, request \in Requests : StatsAllocBegin(t, request)
    \/ \E t \in Threads : FetchAdd(t)
    \/ \E t \in Threads : StatsAllocInner(t)
    \/ \E t \in Threads : StatsBegin(t)
    \/ \E t \in Threads : Load(t)
    \/ \E t \in Threads : StatsReturn(t)

StatsAllocSpec == LockInit /\ [][StatsAllocNext]_vars

\* ReporterSpec follows two running threads through allocations, deallocations
\* and set_thread_reporter.  Which reporter is in effect does not depend on the
\* time: no Instant passes here.
ReporterNext ==
    \/ \E t \in Threads, size \in Sizes : Alloc(t, size)
    \/ \E t \in Threads, size \in Sizes : Dealloc(t, size)
    \/ \E t \in Threads, reporter \in Reporters : SetThreadReporter(t, reporter)

ReporterSpec == LockInit /\ [][ReporterNext]_vars

\* C17: set_thread_reporter(reporter) on thread t installs the reporter on t and
\* leaves every other thread's ThreadStats (reporter, active Summary,
\* thread_total, last_updated) and reporter in effect as they were; and every
\* event on a thread that has a thread reporter ends as that reporter's report
\* leaves it, whatever the allocator's default reporter is.
C17_ThreadReporterIsLocal ==
    [][\A t \in Threads :
          /\ (\E reporter \in Reporters : SetThreadReporter(t, reporter) /\ ~aborted'
                   /\ thread_stats'[t].reporter = Some(reporter)) =>
                 \A u \in Threads \ {t} :
                     /\ thread_stats'[u] = thread_stats[u]
                     /\ in_effect(u)' = in_effect(u)
          /\ (\E reporter \in Reporters : SetThreadReporter(t, reporter) /\ ~aborted') =>
                 thread_stats'[t].reporter # None
          /\ (thread_stats[t].reporter # None /\ EventStep(t) /\ ~aborted') =>
                 LET w == [World(t) EXCEPT !.ts.stats = add(@, EventOf(t))]
                     out == Reporter_report(unwrap(thread_stats[t].reporter), w)
                 IN  /\ thread_stats'[t] = out.ts
                     /\ rollups' = out.rollups
                     /\ thread_stats[t].reporter = Some(NeverReport) => rollups' = rollups]_vars

\* C17 witness: the allocator's default is AlwaysReport; the main thread
\* installed NeverReport and buffers its event, the second thread has no thread
\* reporter and its event is in the process default Rollup.
C17_Witness ==
    /\ default_reporter = AlwaysReport
    /\ thread_stats["t1"].reporter = Some(NeverReport)
    /\ thread_stats["t1"].stats # Zero
    /\ recorded["t1"] = thread_stats["t1"].stats
    /\ thread_stats["t2"].reporter = None
    /\ recorded["t2"] # Zero
    /\ rollups[GLOBAL_ALLOC_STATS] = recorded["t2"]

\* HeldSpec starts where the main thread has just created its Region, before
\* any event, and follows the thread through allocator events, flush() and the
\* calls on the Region.
HeldInit ==
    /\ default_reporter \in Reporters
    /\ thread_stats = [t \in Threads |-> ThreadStatsDefault]
    /\ status = [t \in Threads |-> IF t = MainThread THEN "running" ELSE "unstarted"]
    /\ rollups = [r \in Rollups |-> Zero]
    /\ now = 0
    /\ aborted = FALSE
    /\ ops = 0
    /\ recorded = [t \in Threads |-> Zero]
    /\ merged = [t \in Threads |-> [r \in Rollups |-> Zero]]
    /\ region = [t \in Threads |-> IF t = MainThread THEN Some(Region_new(t)) ELSE None]
    /\ since = [t \in Threads |-> Zero]
    /\ life = [t \in Threads |-> IF t = MainThread THEN Life(summary(t)) ELSE NoLife]
    /\ replay = NoReplay
    /\ algebra = NoAlgebra
    /\ stats_alloc = StatsAlloc_new
    /\ exhausted = FALSE
    /\ returned = None
    /\ inner = None
    /\ pc = [t \in Threads |-> "idle"]
    /\ lock = [r \in Rollups |-> None]
    /\ plan = [t \in Threads |-> <<>>]
    /\ field = [t \in Threads |-> 0]
    /\ merges = [r \in Rollups |-> <<>>]

HeldNext ==
    \/ \E size \in Sizes : Alloc(MainThread, size)
    \/ \E size \in Sizes : Dealloc(MainThread, size)
    \/ \E old_size \in Sizes, new_size \in Sizes : Realloc(MainThread, old_size, new_size)
    \/ Flush(MainThread)
    \/ RegionChange(MainThread)
    \/ RegionChangeAndReset(MainThread)
    \/ RegionReset(MainThread)

HeldSpec == HeldInit /\ [][HeldNext]_vars

\* C18: change_and_reset() on thread t returns what change() returns at that
\* moment (the events recorded on t since the Region was created or last
\* rebased) and leaves a Region whose initial() is the ThreadStats::summary()
\* just read and whose change() is zero; and on a Region on which reset() was
\* never called, the field-wise sum of the results of the change_and_reset()
\* calls made so far is the change since the Region was created.
C18_ChangeAndResetRebases ==
    [][\A t \in Threads :
          (RegionChangeAndReset(t) /\ ~aborted') =>
              /\ returned' = Some(Region_change(unwrap(region[t]), t))
              /\ returned' = Some(since[t])
              /\ Region_initial(unwrap(region[t]))' = summary(t)
              /\ Region_initial(unwrap(region[t]))' =
                     add(Region_initial(unwrap(region[t])), unwrap(returned'))
              /\ Region_change(unwrap(region[t]), t)' = Zero
              /\ ~life[t].reset_called =>
                     /\ life'[t].results = sub(summary(t), life[t].first)
                     /\ life'[t].results = add(life[t].results, unwrap(returned'))]_vars

\* C18 witness: the second of two change_and_reset() calls on the main thread's
\* Region returned the events recorded since the first, and the two results add
\* up to what was recorded since the Region was created.
C18_Witness ==
    /\ life["t1"].calls = 2
    /\ ~life["t1"].reset_called
    /\ inner = None
    /\ returned = Some(recorded["t1"])
    /\ recorded["t1"] # Zero
    /\ life["t1"].results = recorded["t1"]
    /\ Region_initial(unwrap(region["t1"])) = summary("t1")

\* what one event adds to the bytes allocated: its size for an allocation, the
\* growth for a reallocation that grows, nothing otherwise
Positive(event) ==
    CASE event.op = "allocate" -> event.size
      [] event.op = "reallocate" /\ event.new_size > event.size -> event.new_size - event.size
      [] OTHER -> 0

RECURSIVE PositiveSum(_, _)
\* the sum of Positive over the events of S, each taken count[event] times
PositiveSum(S, count) ==
    IF S = {} THEN 0
    ELSE LET event == CHOOSE e \in S : TRUE
         IN  count[event] * Positive(event) + PositiveSum(S \ {event}, count)

\* C19: after any sequence of allocate, deallocate and reallocate events
\* replayed into a Summary that started at zero, total_bytes_allocated() is the
\* sum of the sizes allocated plus the growth of the growing reallocations (as
\* a usize); it depends on how many times each event was replayed and not on
\* their order; and a reallocation from 1 to 2 bytes adds 1, not 2.
C19_TotalIsPositiveSum ==
    /\ [](total_bytes_allocated(replay.summary) = PositiveSum(Events, replay.count) % Modulus)
    /\ [][(Replay([op |-> "reallocate", size |-> 1, new_size |-> 2]) /\ ~aborted') =>
              total_bytes_allocated(replay.summary)' =
                  wrapping_add(total_bytes_allocated(replay.summary), 1)]_vars

\* C19 witness: an allocation of 2 bytes, a reallocation from 1 to 2 bytes and
\* a reallocation from 2 bytes to 1 were replayed: 3 bytes allocated in total.
C19_Witness ==
    /\ replay.count[[op |-> "allocate", size |-> 2, new_size |-> 0]] = 1
    /\ replay.count[[op |-> "reallocate", size |-> 1, new_size |-> 2]] = 1
    /\ replay.count[[op |-> "reallocate", size |-> 2, new_size |-> 1]] = 1
    /\ total_bytes_allocated(replay.summary) = 3

\* the unsigned fields of a Summary that only ever have something added
Counters ==
    {"allocations", "deallocations", "reallocations", "bytes_allocated", "bytes_deallocated"}

\* C20: no allocate, deallocate or reallocate event replayed into a Summary
\* that is not reset makes allocations, deallocations, reallocations,
\* bytes_allocated or bytes_deallocated smaller than it was.
C20_CountersNeverDecrease ==
    [][\A counter \in Counters : replay.summary'[counter] >= replay.summary[counter]]_vars

\* the sums of `algebra` computed so far
Sums == {algebra[which] : which \in {"left", "right", "swapped", "assigned"}} \ {None}

\* field by field, the sum of the three Summaries of `algebra` as integers
FieldSum == [f \in DOMAIN Zero |-> algebra.a[f] + algebra.b[f] + algebra.c[f]]

\* no counter of the sum is out of the range of its type
InRange ==
    /\ \A f \in Counters : FieldSum[f] < Modulus
    /\ FieldSum.bytes_reallocated \in IsizeMin..IsizeMax

\* C21: for any three Summaries a, b, c, the sums (a + b) + c, a + (b + c),
\* a + c + b and the result of a += b, += c that were computed are all equal;
\* each is, field by field, the sum of the three fields reduced to the field's
\* type, and the plain sum when no counter overflows.
C21_AdditionIsFieldwise ==
    /\ Cardinality(Sums) <= 1
    /\ \A sum \in Sums :
           /\ \A f \in Counters : unwrap(sum)[f] = FieldSum[f] % Modulus
           /\ unwrap(sum).bytes_reallocated = as_isize(FieldSum.bytes_reallocated % Modulus)
           /\ InRange => unwrap(sum) = FieldSum

\* C21 witness: three different non-zero Summaries whose sum overflows nowhere
\* were added in all four ways.
C21_Witness ==
    /\ ~aborted
    /\ InRange
    /\ Cardinality({algebra.a, algebra.b, algebra.c, Zero}) = 4
    /\ algebra.a.bytes_reallocated < 0
    /\ None \notin {algebra.left, algebra.right, algebra.swapped, algebra.assigned}

RECURSIVE BytesOf(_, _, _)
\* the bytes of the events of S with the operation op, each taken count[event] times
BytesOf(op, S, count) ==
    IF S = {} THEN 0
    ELSE LET event == CHOOSE e \in S : TRUE
         IN  (IF event.op = op THEN count[event] * event.size ELSE 0)
                 + BytesOf(op, S \ {event}, count)

\* no reallocation was replayed
OnlyAllocationsAndDeallocations ==
    \A event \in Events : event.op = "reallocate" => replay.count[event] = 0

\* C22: outstanding_bytes_allocated() is bytes_allocated - bytes_deallocated
\* read as a signed value (the difference itself whenever it fits an isize);
\* after allocation and deallocation events only, in any order and number, it
\* is the bytes allocated minus the bytes deallocated: 0 when the two totals
\* are the same, negative when more was deallocated.
C22_OutstandingIsSignedDifference ==
    LET self == replay.summary
        difference == self.bytes_allocated - self.bytes_deallocated
        allocated == BytesOf("allocate", Events, replay.count)
        deallocated == BytesOf("deallocate", Events, replay.count)
    IN  /\ outstanding_bytes_allocated(self) \in IsizeMin..IsizeMax
        /\ (outstanding_bytes_allocated(self) - difference) % Modulus = 0
        /\ difference \in IsizeMin..IsizeMax => outstanding_bytes_allocated(self) = difference
        /\ OnlyAllocationsAndDeallocations =>
               /\ outstanding_bytes_allocated(self) = allocated - deallocated
               /\ allocated = deallocated => outstanding_bytes_allocated(self) = 0
               /\ allocated < deallocated => outstanding_bytes_allocated(self) < 0

\* C22 witness: one allocation of 2 bytes and two deallocations of 1 byte were
\* replayed and nothing is outstanding.
C22_Witness ==
    /\ replay.count[[op |-> "allocate", size |-> 2, new_size |-> 0]] = 1
    /\ replay.count[[op |-> "deallocate", size |-> 1, new_size |-> 0]] = 2
    /\ replay.summary.bytes_allocated = 2
    /\ outstanding_bytes_allocated(replay.summary) = 0

\* the accumulator of the reallocation's direction cannot hold the bytes the
\* reallocation frees or requests on top of what it holds
GenuineOverflow(self, old_size, new_size) ==
    IF new_size < old_size
    THEN self.bytes_deallocated + (old_size - new_size) >= Modulus
    ELSE self.bytes_allocated + (new_size - old_size) >= Modulus

\* C23: a reallocation stopped by a debug assertion of Summary::reallocate is
\* one whose size change the accumulator of its direction cannot hold; a
\* reallocation to the same size or to a smaller size that fits is not stopped.
C23_AssertionsOnlyOnOverflow ==
    [][\A event \in Events :
          (/\ event.op = "reallocate"
           /\ Replay(event)
           /\ aborted'
           /\ reallocate_assertion_fires(replay.summary, event.size, event.new_size)) =>
              GenuineOverflow(replay.summary, event.size, event.new_size)]_vars

\* the number of events a Summary counts
EventCount(self) == self.allocations + self.deallocations + self.reallocations

\* C24: between calls, for every thread, running or terminated, and every
\* policy: thread_total is the sum of what the thread has merged into the
\* Rollups, thread_total plus the active Summary is the sum of the events
\* recorded on the thread (each is counted once, in the active Summary or in
\* what was merged), and the Rollups together hold the sum of the threads'
\* thread_total; no step takes an event out of a Rollup or out of a thread_total.
C24_Conservation ==
    /\ [](/\ \A t \in Threads :
               /\ thread_stats[t].thread_total =
                      add(merged[t][GLOBAL_ALLOC_STATS], merged[t][ROLLUP])
               /\ add(thread_stats[t].thread_total, thread_stats[t].stats) = recorded[t]
               /\ EventCount(merged[t][GLOBAL_ALLOC_STATS]) + EventCount(merged[t][ROLLUP])
                      + EventCount(thread_stats[t].stats) = EventCount(recorded[t])
           /\ add(rollups[GLOBAL_ALLOC_STATS], rollups[ROLLUP]) =
                  add(thread_stats["t1"].thread_total, thread_stats["t2"].thread_total))
    /\ [][/\ \A r \in Rollups : EventCount(rollups'[r]) >= EventCount(rollups[r])
          /\ \A t \in Threads :
                 EventCount(thread_stats'[t].thread_total) >=
                     EventCount(thread_stats[t].thread_total)]_vars

\* C24 witness: under LocalIntervalReport as the default policy the main thread
\* merged two events into ROLLUP when the interval had elapsed, recorded a
\* third, and terminated: the third went to the process default Rollup.
C24_Witness ==
    /\ default_reporter = LocalIntervalReport
    /\ thread_stats["t1"].reporter = None
    /\ status["t1"] = "exited"
    /\ EventCount(rollups[ROLLUP]) = 2
    /\ EventCount(rollups[GLOBAL_ALLOC_STATS]) = 1
    /\ thread_stats["t1"].thread_total = recorded["t1"]
    /\ add(rollups[GLOBAL_ALLOC_STATS], rollups[ROLLUP]) = recorded["t1"]

\* C25: after any sequence of alloc, alloc_zeroed, dealloc and realloc requests
\* made one after the other to a StatsAlloc and recorded in a Summary, both
\* starting at zero, StatsAlloc::stats() has the six values of the Summary.
C25_ImplementationsAgree ==
    StatsAlloc_stats(stats_alloc.counters) = replay.summary

RECURSIVE CountersAfter(_, _)
\* the counters of a StatsAlloc after the whole calls S of those begun
CountersAfter(S, begun) ==
    IF S = {} THEN Zero
    ELSE LET i == CHOOSE j \in S : TRUE
         IN  StatsAlloc_call(CountersAfter(S \ {i}, begun), begun[i])

\* C26: the Stats that StatsAlloc::stats() returns, with other threads calling
\* the allocator, are the counters as they are after some of the calls begun
\* so far, each of these counted whole.
C26_StatsIsASnapshot ==
    [][\A t \in Threads :
          StatsReturn(t) =>
              \E S \in SUBSET DOMAIN stats_alloc.begun :
                  unwrap(returned') = StatsAlloc_stats(CountersAfter(S, stats_alloc.begun))]_vars

\* everything counted for thread t: in its active Summary, its thread_total
\* and (t being the only thread to merge) the Rollups
Counted(t) == add(thread_stats[t].stats, add(rollups[GLOBAL_ALLOC_STATS], rollups[ROLLUP]))

\* the step returns the wrapped allocator's failure of `call` and has counted `event`
FailsCounted(t, call, event) ==
    /\ inner' = Some([call EXCEPT !.result = null])
    /\ returned' = Some(null)
    /\ summary(t)' = add(summary(t), event)
    /\ Counted(t)' = add(Counted(t), event)
    /\ recorded'[t] = add(recorded[t], event)

\* C27: an alloc, alloc_zeroed or realloc made when the wrapped allocator is
\* out of memory returns its null unchanged and still counts the request in
\* the thread's statistics and in what the policy flushes to the Rollups; no
\* later step takes an event out of the thread's statistics or out of a Rollup.
C27_FailuresAreCounted ==
    [][\A t \in Threads :
          /\ (exhausted /\ ~aborted') =>
                 /\ \A size \in Sizes :
                        /\ Alloc(t, size) =>
                               FailsCounted(t, Call("alloc", size, 0), allocate(Zero, size))
                        /\ AllocZeroed(t, size) =>
                               FailsCounted(t, Call("alloc_zeroed", size, 0),
                                            allocate(Zero, size))
                 /\ \A old_size \in Sizes, new_size \in Sizes :
                        Realloc(t, old_size, new_size) =>
                            FailsCounted(t, Call("realloc", old_size, new_size),
                                         reallocate(Zero, old_size, new_size))
          /\ EventCount(summary(t))' >= EventCount(summary(t))
          /\ \A r \in Rollups : EventCount(rollups'[r]) >= EventCount(rollups[r])]_vars

\* C27 witness: under AlwaysReport an allocation made after the wrapped
\* allocator ran out of memory returned null, and the process default Rollup
\* counts it.
C27_Witness ==
    /\ exhausted
    /\ default_reporter = AlwaysReport
    /\ returned = Some(null)
    /\ inner # None
    /\ unwrap(inner).op = "alloc"
    /\ recorded["t1"].allocations = 1
    /\ rollups[GLOBAL_ALLOC_STATS] = recorded["t1"]
    /\ summary("t1") = recorded["t1"]

====
